---- MODULE Spec2Model ----
(***************************************************************************)
(* State-machine model of the websocket client core:                       *)
(*   WSManager           (src/src/core/WSManager.ts)                       *)
(*   MessageRouter       (src/src/core/MessageRouter.ts)                   *)
(*   SubscriptionManager (src/src/core/SubscriptionManager.ts)             *)
(* running on the browser event loop: every handler (user call, socket     *)
(* event, timer callback) runs to completion, so each is one action.       *)
(*                                                                         *)
(* The browser WebSocket is the environment.  A socket object goes         *)
(* CONNECTING -> OPEN -> CLOSING -> CLOSED; the open event is dispatched   *)
(* in the task that sets OPEN, the close event in the task that sets       *)
(* CLOSED, and close() only moves the socket to CLOSING: the close event   *)
(* comes later, in a task of its own.                                      *)
(***************************************************************************)
EXTENDS Integers, Sequences, FiniteSets, TLC

\* ------------------------------------------------------------------ bounds
\* WebSocket objects that still have events to deliver, at any one time.
MaxSockets == 2
\* Unsubscribe closures handed out by SubscriptionManager.subscribe.
MaxHandles == 2
\* Ticks counted while a heartbeat is unanswered.
MaxWait == 4
\* Updates of one channel counted between two flushes
MaxBatch == 2
\* Calls of StoreManager.subscribe.
MaxStoreSubs == 3
\* Messages a custom asynchronous parser is still working on.
MaxInFlight == 2

Channels == {"a", "b"}
Callbacks == {"cb1", "cb2"}

\* A channel with the reserved prefix, which a caller may subscribe to like
\* any other, and every channel name of the model.
ReservedChannels == {"__c"}
AllChannels == Channels \cup ReservedChannels

\* The constructor's defaults, in milliseconds.
DefaultHeartbeatInterval == 30000
DefaultPongTimeout == 10000
DefaultReconnectDelay == 1000

\* One tick of model time, in milliseconds; every timer period below is a
\* multiple of it.
TickMs == DefaultPongTimeout

\* ----------------------------------------------------------- configuration
\* WSConfig after the constructor's normalisation: heartbeatInterval and
\* pongTimeout are numbers (false became 0); reconnectDecayFactor is the
\* fraction factorNum / factorDen; strictJsonMode has its default, true.
\* The configuration of the backoff test (reconnectDelay 1000, factor 2,
\* ceiling 10000) with the default heartbeat (30000) and pong timeout (10000).
BackoffTestConfig ==
    [heartbeatInterval |-> DefaultHeartbeatInterval,
     pongTimeout |-> DefaultPongTimeout,
     reconnectDelay |-> DefaultReconnectDelay,
     maxReconnectDelay |-> 10 * DefaultReconnectDelay,
     factorNum |-> 2, factorDen |-> 1,
     strictJsonMode |-> TRUE]

\* The default reconnectDelay and factor (1000, 1.5) under a ceiling of 3000:
\* the delays 1000, 1500, 2250, 3000 are whole numbers.
LowCeilingConfig ==
    [BackoffTestConfig EXCEPT !.maxReconnectDelay = 3 * DefaultReconnectDelay,
                              !.factorNum = 3, !.factorDen = 2]

\* heartbeatInterval: false.
NoHeartbeat(c) == [c EXCEPT !.heartbeatInterval = 0, !.pongTimeout = 0]

\* The configurations of the connection lifecycle: no heartbeat.
ConnConfigs == {NoHeartbeat(BackoffTestConfig), NoHeartbeat(LowCeilingConfig)}

\* The configuration of the subscription layer: no heartbeat, a constant
\* reconnect delay.
ConstantDelayConfig ==
    [BackoffTestConfig EXCEPT !.maxReconnectDelay = DefaultReconnectDelay]
SubConfigs == {NoHeartbeat(ConstantDelayConfig)}

\* The configurations of the liveness protocol: heartbeat with a pong
\* timeout shorter than the interval (the defaults), with none, and with one
\* longer than the interval; a constant reconnect delay.
HbConfigs ==
    { [ConstantDelayConfig EXCEPT !.heartbeatInterval = h, !.pongTimeout = p] :
        <<h, p>> \in {<<DefaultHeartbeatInterval, DefaultPongTimeout>>,
                      <<2 * TickMs, 0>>,
                      <<TickMs, 2 * TickMs>>} }

\* The default heartbeatMessage: a subscribe frame for channel "ping".
HeartbeatMessage == [action |-> "subscribe", channel |-> "ping"]

FrameChannels == AllChannels \cup {"ping"}
Frames == [action : {"subscribe", "unsubscribe"}, channel : FrameChannels]
NoFrames == [f \in Frames |-> 0]

Sockets == 1..MaxSockets

VARIABLES
    config,                 \* WSManager.config
    readyState,             \* readyState of every socket object ("NONE": no such object)
    ws,                     \* WSManager.ws: a socket, or 0 for null
    heartbeatTimer,         \* "null" | "active"
    hbLeft,                 \* ms until the heartbeat interval fires next
    pongTimeoutTimer,       \* "null" | "pending" | "fired" (the id is kept after firing)
    pongLeft,               \* ms until the pong timeout fires
    reconnectTimer,         \* "null" | "pending" | "fired"
    scheduledDelay,         \* the delay the pending reconnect timer was set with
    currentReconnectDelay,  \* WSManager.currentReconnectDelay
    isIntentionallyClosed,  \* WSManager.isIntentionallyClosed
    subscriptions,          \* SubscriptionManager.subscriptions: channel -> refCount (0: no entry)
    routes,                 \* MessageRouter.routes: channel -> whether the map has
                            \* the key, and the Set of callbacks stored under it
    handles,                \* the unsubscribe closures returned so far: how many
                            \* capture (channel, callback) and were called or not
    sent,                   \* frames passed to ws.send by the last step, with multiplicity
    remote,                 \* the peer's subscribed set on the connection this.ws
    delivered,              \* callbacks invoked by the last step
    retries,                \* reconnect-timer firings since the last open event that
                            \* found the delay below the ceiling
    awaiting,               \* ms the oldest unanswered heartbeat has waited, -1: none
    lastAct,                \* the handler that ran last
    io,                     \* what the last step received, parsed, forwarded,
                            \* transmitted raw, logged and threw
    hooks,                  \* WSManager's listeners Set and messageHandler
    store,                  \* the StoreManager and the store it feeds
    parsing                 \* the messages a custom asynchronous messageParser
                            \* has not resolved yet, in arrival order

wsVars == <<readyState, ws, heartbeatTimer, hbLeft, pongTimeoutTimer, pongLeft,
            reconnectTimer, scheduledDelay, currentReconnectDelay,
            isIntentionallyClosed, retries, awaiting>>
subVars == <<subscriptions, routes, handles>>
vars == <<config, readyState, ws, heartbeatTimer, hbLeft, pongTimeoutTimer,
          pongLeft, reconnectTimer, scheduledDelay, currentReconnectDelay,
          isIntentionallyClosed, subscriptions, routes, handles, sent, remote,
          delivered, retries, awaiting, lastAct, io, hooks, store, parsing>>

Min(x, y) == IF x <= y THEN x ELSE y

\* ------------------------------------------------------- inbound messages
\* The data of a message event: an ArrayBuffer or Blob, or a string.
NoPayload == [kind |-> "none", text |-> ""]
BinaryPayload == [kind |-> "binary", text |-> ""]
TextPayload(t) == [kind |-> "text", text |-> t]

\* The strings of the model: one that is not JSON, envelopes for an
\* application channel, the reserved channel and the liveness reply, an
\* object whose channel is a number, an object without a channel, an array,
\* a number and null.
Texts ==
    {"hello",
     "{\"channel\":\"a\",\"data\":1}",
     "{\"channel\":\"__c\",\"data\":1}",
     "{\"channel\":\"pong\"}",
     "{\"channel\":7}",
     "{\"data\":1}",
     "[1]",
     "42",
     "null"}
Payloads == {BinaryPayload} \cup {TextPayload(t) : t \in Texts}
PongPayload == TextPayload("{\"channel\":\"pong\"}")

\* JSON.parse(text): whether it returns, the kind of value the text denotes
\* ("object", "array", "number", "null"), and the value's channel property
\* (key: "absent", or the type of the property's value; a number is written
\* in decimal).
Json(ok, type, key, channel) ==
    [ok |-> ok, type |-> type, key |-> key, channel |-> channel]
JSONparse(text) ==
    CASE text = "{\"channel\":\"a\",\"data\":1}" -> Json(TRUE, "object", "string", "a")
      [] text = "{\"channel\":\"a\",\"data\":2}" -> Json(TRUE, "object", "string", "a")
      [] text = "{\"channel\":\"b\",\"data\":1}" -> Json(TRUE, "object", "string", "b")
      [] text = "{\"channel\":\"__c\",\"data\":1}" -> Json(TRUE, "object", "string", "__c")
      [] text = "{\"channel\":\"pong\"}" -> Json(TRUE, "object", "string", "pong")
      [] text = "{\"channel\":7}" -> Json(TRUE, "object", "number", "7")
      [] text = "{\"data\":1}" -> Json(TRUE, "object", "absent", "")
      [] text = "[1]" -> Json(TRUE, "array", "absent", "")
      [] text = "42" -> Json(TRUE, "number", "absent", "")
      [] text = "null" -> Json(TRUE, "null", "absent", "")
      [] OTHER -> Json(FALSE, "none", "absent", "")

\* JavaScript's view of a decoded value: truthiness, typeof, Array.isArray
\* and "channel" in value.
truthy(v) == v.type # "null"
typeof(v) == IF v.type \in {"object", "array", "null"} THEN "object" ELSE v.type
isArray(v) == v.type = "array"
hasChannelKey(v) == v.key # "absent"

\* A WSMessage: its channel (and whether that is a string) and its data: the
\* payload as received ("raw"), the value decoded from the payload
\* ("decoded"), or, for a decoded object that is the message itself, that
\* object's own data ("self").
Message(channel, isString, form, payload) ==
    [channel |-> channel, stringChannel |-> isString, form |-> form, of |-> payload]
NoMessage == Message("", FALSE, "none", NoPayload)

\* What a parser call gave: the exception it threw, or the message.
Threw == [threw |-> TRUE, message |-> NoMessage]
Returned(m) == [threw |-> FALSE, message |-> m]

\* parseMessage wrapping every decoded value, an envelope included.
parseMessageWrapAll(data, strict) ==
    IF data.kind = "binary" THEN Returned(Message("binary", TRUE, "raw", data))
    ELSE IF ~JSONparse(data.text).ok
         THEN (IF strict THEN Threw ELSE Returned(Message("message", TRUE, "raw", data)))
         ELSE Returned(Message("message", TRUE, "decoded", data))

\* parseMessage ignoring strictJsonMode.
parseMessageLenient(data, strict) ==
    IF data.kind = "binary" THEN Returned(Message("binary", TRUE, "raw", data))
    ELSE LET parsed == JSONparse(data.text) IN
         IF ~parsed.ok THEN Returned(Message("message", TRUE, "raw", data))
         ELSE IF /\ truthy(parsed)
                 /\ typeof(parsed) = "object"
                 /\ ~isArray(parsed)
                 /\ hasChannelKey(parsed)
              THEN Returned(Message(parsed.channel, parsed.key = "string", "self", data))
              ELSE Returned(Message("message", TRUE, "decoded", data))

\* parseMessage(data), the default parser, under strictJsonMode = strict.
parseMessage(data, strict) ==
    IF data.kind = "binary" THEN Returned(Message("binary", TRUE, "raw", data))
    ELSE LET parsed == JSONparse(data.text) IN
         IF ~parsed.ok
         THEN (IF strict THEN Threw ELSE Returned(Message("message", TRUE, "raw", data)))
         ELSE IF /\ truthy(parsed)
                 /\ typeof(parsed) = "object"
                 /\ ~isArray(parsed)
                 /\ hasChannelKey(parsed)
              THEN Returned(Message(parsed.channel, parsed.key = "string", "self", data))
              ELSE Returned(Message("message", TRUE, "decoded", data))

\* String.prototype.startsWith
startsWith(str, prefix) ==
    Len(str) >= Len(prefix) /\ SubSeq(str, 1, Len(prefix)) = prefix

\* isPongMessage answering no to every message.
isPongMessageNever(message) == FALSE

\* The default isPongMessage: message.channel === "pong".
isPongMessage(message) == message.stringChannel /\ message.channel = "pong"

\* The filter of handleMessage passing every channel.
isReservedNever(channel) == FALSE

\* message.channel.startsWith("__")
isReserved(channel) == startsWith(channel, "__")

\* What a run of the callbacks of a channel did: the callbacks invoked, the
\* errors logged, and whether an exception left the loop.
NoRun == [invoked |-> {}, errors |-> 0, thrown |-> FALSE]

\* The loop of emit without its try/catch: the first exception ends it.
RECURSIVE forEachUnguarded(_, _, _)
forEachUnguarded(cbs, throwing, run) ==
    IF cbs = {} THEN run
    ELSE LET cb == CHOOSE x \in cbs : TRUE IN
         IF cb \in throwing
         THEN [run EXCEPT !.invoked = @ \cup {cb}, !.thrown = TRUE]
         ELSE forEachUnguarded(cbs \ {cb}, throwing, [run EXCEPT !.invoked = @ \cup {cb}])

\* callbacks.forEach of emit: every callback of the Set is called inside a
\* try/catch; the ones of `throwing` throw, which is logged.
RECURSIVE forEach(_, _, _)
forEach(cbs, throwing, run) ==
    IF cbs = {} THEN run
    ELSE LET cb == CHOOSE x \in cbs : TRUE IN
         forEach(cbs \ {cb}, throwing,
                 [run EXCEPT !.invoked = @ \cup {cb},
                             !.errors = @ + (IF cb \in throwing THEN 1 ELSE 0)])

\* MessageRouter.emit(channel, data), the callbacks of `throwing` throwing.
emit(ch, throwing) ==
    IF ch \in AllChannels /\ routes[ch].has
    THEN forEach(routes[ch].cbs, throwing, NoRun)
    ELSE NoRun

\* The argument of send and sendRaw: a string, an ArrayBuffer, or an object
\* (a control frame).
NoFrame == [action |-> "", channel |-> ""]
Data(type, text, frame) == [type |-> type, text |-> text, frame |-> frame]
NoData == Data("none", "", NoFrame)
StringData == Data("string", "hello", NoFrame)
BufferData == Data("buffer", "", NoFrame)
ObjectData(f) == Data("object", "", f)

\* A closure that captures a channel and a callback, and the absence of one.
NoHandle == [channel |-> "", callback |-> "", called |-> FALSE]

\* The connection-state listeners: the one the SubscriptionManager's
\* constructor registers, the one the StoreManager's constructor registers,
\* and the application's.
UserListeners == {"l1", "l2"}
Listeners == {"subscriptionManager", "storeManager"} \cup UserListeners

\* The message handlers: the one the SubscriptionManager's constructor
\* installs, which calls messageRouter.emit, and the application's.
UserHandlers == {"h1", "h2"}

\* WSManager's listeners and messageHandler after the constructors of
\* WSManager and SubscriptionManager.  closures: the listeners a
\* de-registration closure was returned for; removed: the listeners deleted
\* and not added since; replaced: the handlers installed and replaced since;
\* order: the listeners in the order the Set iterates them (insertion order).
ClientHooks ==
    [listeners |-> {"subscriptionManager"},
     order |-> <<"subscriptionManager">>,
     handler |-> "router",
     closures |-> {},
     removed |-> {},
     replaced |-> {}]

\* The values a channel's data takes in the store; "none": no entry.
NoBatch == [c \in Channels |-> "none"]

\* No StoreManager constructed.  frames and timers count the flushUpdates
\* callbacks the browser holds for requestAnimationFrame and setTimeout;
\* wrappers are the channels of the closures subscribe created, in order;
\* window holds, by
\* channel, the updates ingested since the last flush (the latest MaxBatch
\* of them).
NoStoreManager ==
    [constructed |-> FALSE,
     useRAF |-> TRUE,
     pendingUpdates |-> NoBatch,
     rafId |-> "null",
     batchTimer |-> "null",
     frames |-> 0,
     timers |-> 0,
     unsubscribers |-> [c \in Channels |-> 0],
     wrappers |-> << >>,
     data |-> NoBatch,
     channels |-> {},
     connected |-> FALSE,
     window |-> [c \in Channels |-> << >>]]

\* A call of every connection-state listener with one value, and no call.
Notice(value, listeners) == [value |-> value, listeners |-> listeners]
NoNotice == Notice("none", {})

\* What a step received, parsed, forwarded to the message handler,
\* transmitted through sendRaw, logged and threw.
NoIo == [payload |-> NoPayload,        \* the data of the message event handled
         parsed |-> Returned(NoMessage), \* what the parser gave for it
         forwarded |-> NoMessage,      \* the argument of the messageHandler call
         throwing |-> {},              \* the callbacks that threw when called
         callbackErrors |-> 0,         \* errors logged by MessageRouter.emit
         logged |-> FALSE,             \* handleMessage logged an error
         call |-> NoData,              \* the argument of a send or sendRaw call
         closure |-> NoHandle,         \* the closure of register that was called
         raw |-> NoPayload,            \* a string or buffer passed to ws.send
         thrown |-> FALSE,             \* an exception reached the caller
         notified |-> NoNotice,        \* the listeners called, and with what
         handler |-> "none",           \* the handler installed or called
         socket |-> 0,                 \* the socket the step was about
         wasOpen |-> FALSE,            \* isConnected() when the step began
         batch |-> NoBatch,            \* the updates a flush gave the store
         flushed |-> FALSE,            \* batchUpdateChannels was called
         wrapper |-> 0,                \* the StoreManager closure returned or called
         window |-> [c \in Channels |-> << >>]] \* the updates a flush found ingested

\* handleMessage(data) as far as the messageHandler call: whether the
\* liveness timeout is cleared, the message forwarded (NoMessage: none), and
\* whether the catch block logs (the parser threw, or startsWith was called
\* on a channel that is not a string).
handleMessage(data) ==
    LET r == parseMessage(data, config.strictJsonMode)
        m == r.message
    IN  [parsed |-> r,
         pong |-> ~r.threw /\ isPongMessage(m),
         forwarded |-> IF ~r.threw /\ m.stringChannel /\ ~isReserved(m.channel)
                       THEN m ELSE NoMessage,
         logged |-> r.threw \/ ~m.stringChannel]

\* ------------------------------------------------------------- WSManager
InitialDelay == config.reconnectDelay
MaxDelay == config.maxReconnectDelay

\* isConnected(): this.ws?.readyState === WebSocket.OPEN
isConnected == ws # 0 /\ readyState[ws] = "OPEN"

\* WebSocket.close(): an open or connecting socket starts closing.
CloseSocket(rs, s) ==
    IF rs[s] \in {"CONNECTING", "OPEN"} THEN [rs EXCEPT ![s] = "CLOSING"] ELSE rs

\* A socket object that is closed and no longer referenced delivers nothing
\* more: its slot is free again.
Release(rs, cur) ==
    [s \in Sockets |-> IF rs[s] = "CLOSED" /\ s # cur THEN "NONE" ELSE rs[s]]

\* The frames a call of ws.send adds to the ones already sent in this step.
Send(bag, f) == [bag EXCEPT ![f] = @ + 1]

\* The peer's subscribed set after it has applied the frames of `bag`.
Apply(set, bag) ==
    (set \cup {c \in FrameChannels :
                  bag[[action |-> "subscribe", channel |-> c]] > 0})
        \ {c \in FrameChannels :
                  bag[[action |-> "unsubscribe", channel |-> c]] > 0
                  /\ bag[[action |-> "subscribe", channel |-> c]] = 0}

\* getActiveChannels(): the keys of the subscriptions map.
getActiveChannels == {c \in Channels : subscriptions[c] > 0}

\* resubscribeAll sending a subscribe frame for every channel, subscribed or not.
resubscribeEveryChannel(open) ==
    [f \in Frames |->
        IF open /\ f.action = "subscribe" /\ f.channel \in Channels THEN 1 ELSE 0]

\* resubscribeAll sending nothing.
resubscribeNothing(open) == NoFrames

\* resubscribeAll(), given whether wsManager.send finds the socket open:
\* one subscribe frame per key of the subscriptions map.
resubscribeAll(open) ==
    [f \in Frames |->
        IF open /\ f.action = "subscribe" /\ f.channel \in getActiveChannels
        THEN 1 ELSE 0]

\* The backoff without its ceiling.
NextDelayUncapped(d) == (d * config.factorNum) \div config.factorDen

\* The next value of the backoff: Math.min(delay * factor, maxReconnectDelay).
NextDelay(d) == Min((d * config.factorNum) \div config.factorDen, MaxDelay)

\* connect() without its test of the socket's state.
connectAnyway ==
    /\ \E s \in Sockets :
          /\ Release(readyState, 0)[s] = "NONE"
          /\ \A t \in Sockets : t < s => Release(readyState, 0)[t] # "NONE"
          /\ ws' = s
          /\ readyState' = [Release(readyState, 0) EXCEPT ![s] = "CONNECTING"]
    /\ isIntentionallyClosed' = FALSE
    /\ remote' = {}
    /\ awaiting' = -1

\* connect(): nothing when already open; otherwise a new socket object
\* replaces this.ws (the old object is not closed and keeps its handlers).
connect ==
    IF isConnected
    THEN UNCHANGED <<ws, readyState, isIntentionallyClosed, remote, awaiting>>
    ELSE /\ \E s \in Sockets :
               /\ Release(readyState, 0)[s] = "NONE"
               /\ \A t \in Sockets : t < s => Release(readyState, 0)[t] # "NONE"
               /\ ws' = s
               /\ readyState' = [Release(readyState, 0) EXCEPT ![s] = "CONNECTING"]
         /\ isIntentionallyClosed' = FALSE
         /\ remote' = {}
         /\ awaiting' = -1

\* User call of connect().
Connect ==
    /\ connect
    /\ sent' = NoFrames
    /\ delivered' = {}
    /\ lastAct' = "connect"
    /\ io' = NoIo
    /\ UNCHANGED <<hooks, store>>
    /\ UNCHANGED <<config, parsing, heartbeatTimer, hbLeft, pongTimeoutTimer, pongLeft,
                   reconnectTimer, scheduledDelay, currentReconnectDelay,
                   retries, subVars>>

\* User call of disconnect().
Disconnect ==
    /\ isIntentionallyClosed' = TRUE
    /\ heartbeatTimer' = "null"
    /\ pongTimeoutTimer' = "null"
    /\ reconnectTimer' = "null"
    /\ hbLeft' = 0
    /\ pongLeft' = 0
    /\ scheduledDelay' = 0
    /\ readyState' = IF ws # 0 THEN Release(CloseSocket(readyState, ws), 0)
                     ELSE readyState
    /\ ws' = 0
    /\ remote' = {}
    /\ awaiting' = -1
    /\ sent' = NoFrames
    /\ delivered' = {}
    /\ lastAct' = "disconnect"
    /\ io' = [NoIo EXCEPT !.wasOpen = isConnected, !.socket = ws]
    /\ UNCHANGED <<hooks, store>>
    /\ UNCHANGED <<config, parsing, currentReconnectDelay, retries, subVars>>

\* startHeartbeat never returning early.
heartbeatDisabledNever == FALSE

\* startHeartbeat returns at once when heartbeatInterval is 0.
heartbeatDisabled == config.heartbeatInterval = 0

\* notifyConnectionState telling the listeners of an open only.
notifyOpenOnly(connected) == IF connected THEN hooks.listeners ELSE {}

\* notifyConnectionState(connected): the listeners called, which is every
\* listener of the Set.
notifyConnectionState(connected) == hooks.listeners

\* The store's setConnected(connected).
setConnected(st, connected) == [st EXCEPT !.connected = connected]

\* The open event of socket s: ws.onopen.
OnOpen(s) ==
    /\ readyState[s] = "CONNECTING"
    /\ readyState' = [readyState EXCEPT ![s] = "OPEN"]
    /\ currentReconnectDelay' = InitialDelay
    /\ retries' = 0
       \* startHeartbeat()
    /\ IF heartbeatDisabled
       THEN UNCHANGED <<heartbeatTimer, hbLeft, pongTimeoutTimer, pongLeft>>
       ELSE /\ heartbeatTimer' = "active"
            /\ hbLeft' = config.heartbeatInterval
            /\ pongTimeoutTimer' = "null"
            /\ pongLeft' = 0
       \* notifyConnectionState(true): the SubscriptionManager's listener
       \* calls resubscribeAll(), the StoreManager's store.setConnected(true)
    /\ LET called == notifyConnectionState(TRUE) IN
         /\ sent' = IF "subscriptionManager" \in called
                    THEN resubscribeAll(ws # 0 /\ readyState'[ws] = "OPEN")
                    ELSE NoFrames
         /\ store' = IF "storeManager" \in called THEN setConnected(store, TRUE)
                     ELSE store
         /\ io' = [NoIo EXCEPT !.notified = Notice("true", called)]
    /\ remote' = Apply(remote, sent')
    /\ delivered' = {}
    /\ lastAct' = "open"
    /\ UNCHANGED hooks
    /\ UNCHANGED <<config, parsing, ws, reconnectTimer, scheduledDelay,
                   isIntentionallyClosed, awaiting, subVars>>

\* onclose with the test of the flag inverted, and without the test.
ReconnectAfterCloseInverted == isIntentionallyClosed
ReconnectAfterCloseAlways == TRUE

\* onclose reconnects unless the close was asked for by disconnect().
ReconnectAfterClose == ~isIntentionallyClosed

\* The listeners forEach reaches when the ones of `throwing` throw: those
\* up to the first that throws, in iteration order.
Reached(order, throwing) ==
    LET at == {i \in 1..Len(order) : order[i] \in throwing}
        last == IF at = {} THEN Len(order)
                ELSE CHOOSE i \in at : \A j \in at : i <= j
    IN  {order[i] : i \in 1..last}

\* The close event of socket s, the listeners of `throwing` throwing when
\* called: ws.onclose.  An exception leaves the handler at once.
OnCloseWith(s, throwing) ==
    /\ readyState[s] \in {"CONNECTING", "OPEN", "CLOSING"}
    /\ readyState' = Release([readyState EXCEPT ![s] = "CLOSED"], ws)
       \* stopHeartbeat()
    /\ heartbeatTimer' = "null"
    /\ pongTimeoutTimer' = "null"
    /\ hbLeft' = 0
    /\ pongLeft' = 0
       \* notifyConnectionState(false), then scheduleReconnect()
    /\ LET called == notifyConnectionState(FALSE) \cap Reached(hooks.order, throwing)
           thrown == called \cap throwing # {}
       IN
         /\ IF ~thrown /\ ReconnectAfterClose
            THEN /\ reconnectTimer' = "pending"
                 /\ scheduledDelay' = currentReconnectDelay
            ELSE UNCHANGED <<reconnectTimer, scheduledDelay>>
         /\ store' = IF "storeManager" \in called THEN setConnected(store, FALSE)
                     ELSE store
         /\ io' = [NoIo EXCEPT !.notified = Notice("false", called),
                               !.socket = s,
                               !.thrown = thrown]
    /\ remote' = IF s = ws THEN {} ELSE remote
    /\ awaiting' = IF s = ws THEN -1 ELSE awaiting
    /\ sent' = NoFrames
    /\ delivered' = {}
    /\ lastAct' = "close"
    /\ UNCHANGED hooks
    /\ UNCHANGED <<config, parsing, ws, currentReconnectDelay, isIntentionallyClosed,
                   retries, subVars>>

\* The close event of socket s when no listener throws.
OnClose(s) == OnCloseWith(s, {})

\* The reconnect timer fires: connect(), then the delay grows.
ReconnectFire ==
    /\ reconnectTimer = "pending"
    /\ reconnectTimer' = "fired"
    /\ scheduledDelay' = 0
    /\ connect
    /\ currentReconnectDelay' = NextDelay(currentReconnectDelay)
    /\ retries' = IF currentReconnectDelay < MaxDelay THEN retries + 1 ELSE retries
    /\ sent' = NoFrames
    /\ delivered' = {}
    /\ lastAct' = "reconnectFire"
    /\ io' = NoIo
    /\ UNCHANGED <<hooks, store>>
    /\ UNCHANGED <<config, parsing, heartbeatTimer, hbLeft, pongTimeoutTimer, pongLeft,
                   subVars>>

\* The heartbeat interval fires (both branches of startHeartbeat install the
\* same callback): a heartbeat frame and a fresh pong timeout, if open.
HeartbeatFire ==
    /\ heartbeatTimer = "active"
    /\ hbLeft = 0
    /\ hbLeft' = config.heartbeatInterval
    /\ IF isConnected
       THEN /\ sent' = Send(NoFrames, HeartbeatMessage)
            /\ remote' = Apply(remote, sent')
               \* setPongTimeout()
            /\ IF config.pongTimeout > 0
               THEN /\ pongTimeoutTimer' = "pending"
                    /\ pongLeft' = config.pongTimeout
                    /\ awaiting' = IF awaiting < 0 THEN 0 ELSE awaiting
               ELSE UNCHANGED <<pongTimeoutTimer, pongLeft, awaiting>>
       ELSE /\ sent' = NoFrames
            /\ UNCHANGED <<remote, pongTimeoutTimer, pongLeft, awaiting>>
    /\ delivered' = {}
    /\ lastAct' = "heartbeatFire"
    /\ io' = NoIo
    /\ UNCHANGED <<hooks, store>>
    /\ UNCHANGED <<config, parsing, readyState, ws, heartbeatTimer, reconnectTimer,
                   scheduledDelay, currentReconnectDelay, isIntentionallyClosed,
                   retries, subVars>>

\* The pong timeout fires: this.ws.close(), if there is a socket.
PongFire ==
    /\ pongTimeoutTimer = "pending"
    /\ pongLeft = 0
    /\ pongTimeoutTimer' = "fired"
    /\ readyState' = IF ws # 0 THEN CloseSocket(readyState, ws) ELSE readyState
    /\ sent' = NoFrames
    /\ delivered' = {}
    /\ lastAct' = "pongFire"
    /\ io' = NoIo
    /\ UNCHANGED <<hooks, store>>
    /\ UNCHANGED <<config, parsing, ws, heartbeatTimer, hbLeft, pongLeft, reconnectTimer,
                   scheduledDelay, currentReconnectDelay, isIntentionallyClosed,
                   remote, retries, awaiting, subVars>>

\* Time passes by one tick; a timer that is due fires before time moves on.
Tick ==
    /\ heartbeatTimer = "active" \/ pongTimeoutTimer = "pending"
    /\ heartbeatTimer = "active" => hbLeft > 0
    /\ pongTimeoutTimer = "pending" => pongLeft > 0
    /\ hbLeft' = IF heartbeatTimer = "active" THEN hbLeft - TickMs ELSE hbLeft
    /\ pongLeft' = IF pongTimeoutTimer = "pending" THEN pongLeft - TickMs ELSE pongLeft
    /\ awaiting' = IF awaiting >= 0 THEN Min(awaiting + TickMs, MaxWait * TickMs)
                   ELSE awaiting
    /\ sent' = NoFrames
    /\ delivered' = {}
    /\ lastAct' = "tick"
    /\ io' = NoIo
    /\ UNCHANGED <<hooks, store>>
    /\ UNCHANGED <<config, parsing, readyState, ws, heartbeatTimer, pongTimeoutTimer,
                   reconnectTimer, scheduledDelay, currentReconnectDelay,
                   isIntentionallyClosed, remote, retries, subVars>>

\* The data property of the object a text denotes, written in decimal.
dataProperty(text) ==
    CASE text = "{\"channel\":\"a\",\"data\":1}" -> "1"
      [] text = "{\"channel\":\"a\",\"data\":2}" -> "2"
      [] text = "{\"channel\":\"b\",\"data\":1}" -> "1"
      [] text = "{\"channel\":\"__c\",\"data\":1}" -> "1"
      [] text = "{\"data\":1}" -> "1"
      [] OTHER -> "undefined"

\* message.data of a WSMessage: the data property of an envelope, otherwise
\* the payload (as received or decoded).
dataOf(m) == IF m.form = "self" THEN dataProperty(m.of.text) ELSE "payload"

\* The callback the k-th call of StoreManager.subscribe creates:
\* data => this.handleChannelUpdate(channel, data).
StoreCallbackNames == <<"s1", "s2", "s3", "s4", "s5">>
StoreCallback(k) == StoreCallbackNames[k]

\* handleChannelUpdate overwriting nothing: the first payload of a batch
\* stays.
handleChannelUpdateKeepsFirst(st, c, d) ==
    LET p == IF st.pendingUpdates[c] = "none"
             THEN [st EXCEPT !.pendingUpdates[c] = d] ELSE st
    IN  IF st.useRAF
        THEN (IF p.rafId = "null"
              THEN [p EXCEPT !.rafId = "set", !.frames = @ + 1] ELSE p)
        ELSE (IF p.batchTimer = "null"
              THEN [p EXCEPT !.batchTimer = "set", !.timers = @ + 1] ELSE p)

\* handleChannelUpdate scheduling a flush for every update.
handleChannelUpdateAlwaysSchedules(st, c, d) ==
    LET p == [st EXCEPT !.pendingUpdates[c] = d]
    IN  IF st.useRAF
        THEN [p EXCEPT !.rafId = "set", !.frames = @ + 1]
        ELSE [p EXCEPT !.batchTimer = "set", !.timers = @ + 1]

\* handleChannelUpdate(channel, data): the update replaces the channel's
\* pending one, and a flush is requested if none is.
handleChannelUpdate(st, c, d) ==
    LET p == [st EXCEPT !.pendingUpdates[c] = d]
    IN  IF st.useRAF
        THEN (IF p.rafId = "null"
              THEN [p EXCEPT !.rafId = "set", !.frames = @ + 1] ELSE p)
        ELSE (IF p.batchTimer = "null"
              THEN [p EXCEPT !.batchTimer = "set", !.timers = @ + 1] ELSE p)

\* The last MaxBatch elements of a sequence.
Latest(w) == IF Len(w) <= MaxBatch THEN w ELSE SubSeq(w, Len(w) - MaxBatch + 1, Len(w))

\* The StoreManager after its callbacks number ks were called with d, each
\* for the channel it captured.
RECURSIVE ingest(_, _, _)
ingest(st, ks, d) ==
    IF ks = {} THEN st
    ELSE LET k == CHOOSE x \in ks : TRUE
             c == st.wrappers[k]
             u == handleChannelUpdate(st, c, d)
         IN  ingest([u EXCEPT !.window[c] = Latest(Append(@, d))], ks \ {k}, d)

\* The callbacks a message event with data p reaches.
Targets(p) ==
    LET m == handleMessage(p).forwarded
    IN  IF m # NoMessage /\ m.channel \in AllChannels /\ hooks.handler = "router"
        THEN routes[m.channel].cbs
        ELSE {}

\* handleMessage from the value the parser gave for data p, received on
\* socket s, the callbacks of `throwing` throwing when called: the pong
\* check, the reserved-channel filter and the messageHandler call, which is
\* messageRouter.emit(message.channel, message.data) unless onMessage
\* replaced it.
Process(s, p, throwing) ==
    /\ LET h == handleMessage(p)
           run == IF h.forwarded = NoMessage \/ hooks.handler # "router" THEN NoRun
                  ELSE emit(h.forwarded.channel, throwing)
           ks == {k \in 1..Len(store.wrappers) : StoreCallback(k) \in run.invoked}
       IN  /\ IF h.pong
              THEN /\ pongTimeoutTimer' = "null"
                   /\ pongLeft' = 0
                   /\ awaiting' = IF s = ws THEN -1 ELSE awaiting
              ELSE UNCHANGED <<pongTimeoutTimer, pongLeft, awaiting>>
           /\ delivered' = run.invoked
           /\ io' = [NoIo EXCEPT !.payload = p,
                                 !.parsed = h.parsed,
                                 !.forwarded = h.forwarded,
                                 !.throwing = throwing \cap run.invoked,
                                 !.callbackErrors = run.errors,
                                 !.logged = h.logged \/ run.thrown,
                                 !.thrown = run.thrown,
                                 !.handler = IF h.forwarded = NoMessage THEN "none"
                                             ELSE hooks.handler]
           /\ store' = ingest(store, ks, dataOf(h.forwarded))
    /\ sent' = NoFrames
    /\ UNCHANGED <<config, readyState, ws, heartbeatTimer, hbLeft,
                   reconnectTimer, scheduledDelay, currentReconnectDelay,
                   isIntentionallyClosed, remote, retries, subVars, hooks>>

\* A message event of socket s with data p under the default parser, which
\* returns at once: ws.onmessage -> handleMessage, whose continuation runs
\* before any other task.
OnMessage(s, p, throwing) ==
    /\ readyState[s] = "OPEN"
    /\ Process(s, p, throwing)
    /\ lastAct' = "message"
    /\ UNCHANGED parsing

\* A message in the hands of the parser.
InFlight(s, p) == [socket |-> s, payload |-> p]

\* A sequence without its i-th element.
Without(q, i) == SubSeq(q, 1, i - 1) \o SubSeq(q, i + 1, Len(q))

\* A message event of socket s with data p under a custom messageParser
\* that returns a promise: handleMessage stops at the await.
OnMessageAsync(s, p) ==
    /\ readyState[s] = "OPEN"
    /\ Len(parsing) < MaxInFlight
    /\ parsing' = Append(parsing, InFlight(s, p))
    /\ sent' = NoFrames
    /\ delivered' = {}
    /\ lastAct' = "received"
    /\ io' = [NoIo EXCEPT !.payload = p]
    /\ UNCHANGED <<config, wsVars, subVars, remote, hooks, store>>

\* The promise of the i-th message in flight resolves, with what the
\* default parser gives for it: handleMessage continues after the await.
ParserResolves(i) ==
    /\ i \in 1..Len(parsing)
    /\ Process(parsing[i].socket, parsing[i].payload, {})
    /\ parsing' = Without(parsing, i)
    /\ lastAct' = "parsed"

\* The error event of socket s: ws.onerror stopping the heartbeat.
OnErrorStopsHeartbeat(s) ==
    /\ readyState[s] \in {"CONNECTING", "OPEN"}
    /\ heartbeatTimer' = "null"
    /\ hbLeft' = 0
    /\ pongTimeoutTimer' = "null"
    /\ pongLeft' = 0
    /\ sent' = NoFrames
    /\ delivered' = {}
    /\ lastAct' = "error"
    /\ io' = [NoIo EXCEPT !.logged = TRUE, !.socket = s]
    /\ UNCHANGED <<config, parsing, readyState, ws, reconnectTimer, scheduledDelay,
                   currentReconnectDelay, isIntentionallyClosed, retries,
                   awaiting, subVars, remote, hooks, store>>

\* The error event of socket s: ws.onerror, which logs the event.
OnError(s) ==
    /\ readyState[s] \in {"CONNECTING", "OPEN"}
    /\ sent' = NoFrames
    /\ delivered' = {}
    /\ lastAct' = "error"
    /\ io' = [NoIo EXCEPT !.logged = TRUE, !.socket = s]
    /\ UNCHANGED <<config, parsing, wsVars, subVars, remote, hooks, store>>

\* The listeners Set after listeners.add(l) and listeners.delete(l).
addListener(ls, l) == ls \cup {l}
deleteListenerNever(ls, l) == ls
deleteListener(ls, l) == ls \ {l}

\* The iteration order of the Set after one add or delete made it ls: a new
\* element goes last, the others keep their places.
Reorder(order, ls) ==
    LET In(x) == x \in ls
        kept == SelectSeq(order, In)
        new == ls \ {kept[i] : i \in 1..Len(kept)}
    IN  IF new = {} THEN kept ELSE Append(kept, CHOOSE x \in new : TRUE)

\* User call of onConnectionStateChange(l), which returns a closure.
OnConnectionStateChange(l) ==
    /\ hooks' = [hooks EXCEPT !.listeners = addListener(@, l),
                              !.order = Reorder(@, addListener(hooks.listeners, l)),
                              !.closures = @ \cup {l},
                              !.removed = @ \ {l}]
    /\ sent' = NoFrames
    /\ delivered' = {}
    /\ lastAct' = "onConnectionStateChange"
    /\ io' = NoIo
    /\ UNCHANGED <<config, parsing, wsVars, subVars, remote, store>>

\* A call of a closure onConnectionStateChange(l) returned.
CallRemoveListener(l) ==
    /\ l \in hooks.closures
    /\ hooks' = [hooks EXCEPT !.listeners = deleteListener(@, l),
                              !.order = Reorder(@, deleteListener(hooks.listeners, l)),
                              !.removed = @ \cup {l}]
    /\ sent' = NoFrames
    /\ delivered' = {}
    /\ lastAct' = "removeListener"
    /\ io' = NoIo
    /\ UNCHANGED <<config, parsing, wsVars, subVars, remote, store>>

\* onMessage keeping the first handler the application installed.
installHandlerOnce(old, h) == IF old = "router" THEN h ELSE old

\* this.messageHandler = handler.
installHandler(old, h) == h

\* User call of onMessage(h).
OnMessageHandler(h) ==
    /\ hooks' = [hooks EXCEPT !.handler = installHandler(@, h),
                              !.replaced = (@ \cup {hooks.handler}) \ {h}]
    /\ sent' = NoFrames
    /\ delivered' = {}
    /\ lastAct' = "onMessage"
    /\ io' = [NoIo EXCEPT !.handler = h]
    /\ UNCHANGED <<config, parsing, wsVars, subVars, remote, store>>

\* ------------------------------------------- MessageRouter, SubscriptionManager
\* An entry of the routes map, and the absence of one.
Route(cbs) == [has |-> TRUE, cbs |-> cbs]
NoRoute == [has |-> FALSE, cbs |-> {}]

\* MessageRouter.register(channel, callback): the routes map afterwards.
register(r, c, cb) ==
    LET callbacks == IF r[c].has THEN r[c].cbs ELSE {}
    IN  [r EXCEPT ![c] = Route(callbacks \cup {cb})]

\* unregister leaving the emptied Set in the map.
unregisterKeepsEntry(r, c, cb) ==
    IF r[c].has THEN [r EXCEPT ![c] = Route(r[c].cbs \ {cb})] ELSE r

\* MessageRouter.unregister(channel, callback): the routes map afterwards.
unregister(r, c, cb) ==
    IF r[c].has
    THEN [r EXCEPT ![c] = IF r[c].cbs \ {cb} = {} THEN NoRoute
                          ELSE Route(r[c].cbs \ {cb})]
    ELSE r

\* MessageRouter.hasChannel(channel) and getChannels().
hasChannel(c) == routes[c].has /\ Cardinality(routes[c].cbs) > 0
getChannels == {c \in AllChannels : routes[c].has}

SubscribeFrame(c) == [action |-> "subscribe", channel |-> c]
UnsubscribeFrame(c) == [action |-> "unsubscribe", channel |-> c]

\* subscribe sending its frame for a first subscriber whatever the state of
\* the connection.
SubscribeSendsOffline(c) ==
    IF subscriptions[c] = 0 THEN Send(NoFrames, SubscribeFrame(c)) ELSE NoFrames

\* The frame subscribe(channel, ...) sends: a subscribe frame for the first
\* subscriber of the channel, if connected.
SubscribeSends(c) ==
    IF subscriptions[c] = 0 /\ isConnected
    THEN Send(NoFrames, SubscribeFrame(c)) ELSE NoFrames

\* The reference counts after unsubscribe(channel, ...): no entry, nothing;
\* a count of 1 or less, the entry is deleted; otherwise one less.
UnsubscribeCount(c) ==
    IF subscriptions[c] = 0 THEN subscriptions
    ELSE IF subscriptions[c] <= 1 THEN [subscriptions EXCEPT ![c] = 0]
    ELSE [subscriptions EXCEPT ![c] = @ - 1]

\* unsubscribe sending its frame whenever the channel has an entry.
UnsubscribeSendsAlways(c) ==
    IF subscriptions[c] # 0 /\ isConnected
    THEN Send(NoFrames, UnsubscribeFrame(c)) ELSE NoFrames

\* The frame unsubscribe(channel, ...) sends: an unsubscribe frame when it
\* deletes the entry, if connected.
UnsubscribeSends(c) ==
    IF subscriptions[c] # 0 /\ subscriptions[c] <= 1 /\ isConnected
    THEN Send(NoFrames, UnsubscribeFrame(c)) ELSE NoFrames

\* A closure returned by subscribe captures the channel and the router's
\* unregister closure, which captures the channel and the callback; called
\* tells whether it has been called at least once.
Handles == [channel : AllChannels, callback : Callbacks, called : BOOLEAN]
Handle(c, cb, called) == [channel |-> c, callback |-> cb, called |-> called]

RECURSIVE Sum(_, _)
Sum(f, S) == IF S = {} THEN 0
             ELSE LET x == CHOOSE y \in S : TRUE IN f[x] + Sum(f, S \ {x})

\* SubscriptionManager.subscribe(c, cb).
Subscribe(c, cb) ==
    /\ Sum(handles, Handles) < MaxHandles
    /\ routes' = register(routes, c, cb)
    /\ subscriptions' = [subscriptions EXCEPT ![c] = @ + 1]
    /\ sent' = SubscribeSends(c)
    /\ remote' = Apply(remote, sent')
    /\ handles' = [handles EXCEPT ![Handle(c, cb, FALSE)] = @ + 1]
    /\ delivered' = {}
    /\ lastAct' = "subscribe"
    /\ io' = NoIo
    /\ UNCHANGED <<hooks, store>>
    /\ UNCHANGED <<config, parsing, wsVars>>

\* A call of a closure h returned by subscribe:
\* SubscriptionManager.unsubscribe(channel, unregister).
CallUnsubscribe(h) ==
    /\ handles[h] > 0
    /\ routes' = unregister(routes, h.channel, h.callback)
    /\ subscriptions' = UnsubscribeCount(h.channel)
    /\ sent' = UnsubscribeSends(h.channel)
    /\ remote' = Apply(remote, sent')
    /\ handles' = [handles EXCEPT ![h] = @ - 1,
                                  ![Handle(h.channel, h.callback, TRUE)] = @ + 1]
    /\ delivered' = {}
    /\ lastAct' = IF h.called THEN "unsubscribeAgain" ELSE "unsubscribe"
    /\ io' = NoIo
    /\ UNCHANGED <<hooks, store>>
    /\ UNCHANGED <<config, parsing, wsVars>>

\* Direct call of MessageRouter.register(c, cb); the closure it returns is
\* kept like the ones of subscribe.
Register(c, cb) ==
    /\ Sum(handles, Handles) < MaxHandles
    /\ routes' = register(routes, c, cb)
    /\ handles' = [handles EXCEPT ![Handle(c, cb, FALSE)] = @ + 1]
    /\ sent' = NoFrames
    /\ delivered' = {}
    /\ lastAct' = "register"
    /\ io' = NoIo
    /\ UNCHANGED <<hooks, store>>
    /\ UNCHANGED <<config, parsing, wsVars, subscriptions, remote>>

\* Direct call of MessageRouter.unregister(c, cb).
Unregister(c, cb) ==
    /\ routes' = unregister(routes, c, cb)
    /\ sent' = NoFrames
    /\ delivered' = {}
    /\ lastAct' = "unregister"
    /\ io' = NoIo
    /\ UNCHANGED <<hooks, store>>
    /\ UNCHANGED <<config, parsing, wsVars, subscriptions, handles, remote>>

\* A call of a closure h returned by register: this.unregister(channel,
\* callback).
CallDeregister(h) ==
    /\ handles[h] > 0
    /\ routes' = unregister(routes, h.channel, h.callback)
    /\ handles' = [handles EXCEPT ![h] = @ - 1,
                                  ![Handle(h.channel, h.callback, TRUE)] = @ + 1]
    /\ sent' = NoFrames
    /\ delivered' = {}
    /\ lastAct' = "deregister"
    /\ io' = [NoIo EXCEPT !.closure = h]
    /\ UNCHANGED <<hooks, store>>
    /\ UNCHANGED <<config, parsing, wsVars, subscriptions, remote>>

\* send and sendRaw calling ws.send on any socket there is.
canSendUnlessNull == ws # 0

\* The test of send and sendRaw: this.ws?.readyState === WebSocket.OPEN.
canSend == isConnected

\* WebSocket.send by the socket's state: an open socket transmits, a
\* connecting one throws InvalidStateError, a closing or closed one discards.
wsSend(d) ==
    IF readyState[ws] = "OPEN"
    THEN /\ sent' = (IF d.type = "object" THEN Send(NoFrames, d.frame) ELSE NoFrames)
         /\ io' = [NoIo EXCEPT !.call = d,
                               !.raw = IF d.type = "string" THEN TextPayload(d.text)
                                       ELSE IF d.type = "buffer" THEN BinaryPayload
                                       ELSE NoPayload]
    ELSE /\ sent' = NoFrames
         /\ io' = [NoIo EXCEPT !.call = d, !.thrown = (readyState[ws] = "CONNECTING")]

\* The body shared by send(data) and sendRaw(data): an object is passed
\* through JSON.stringify, a string or ArrayBuffer as it is.
transmit(d) ==
    /\ IF canSend
       THEN wsSend(d)
       ELSE /\ sent' = NoFrames
            /\ io' = [NoIo EXCEPT !.call = d]
    /\ remote' = Apply(remote, sent')
    /\ delivered' = {}
    /\ UNCHANGED <<config, parsing, readyState, ws, heartbeatTimer, hbLeft,
                   pongTimeoutTimer, pongLeft, reconnectTimer, scheduledDelay,
                   currentReconnectDelay, isIntentionallyClosed, retries,
                   awaiting, subVars, hooks, store>>

\* User call of send(frame).
UserSend(f) ==
    /\ transmit(ObjectData(f))
    /\ lastAct' = "send"

\* User call of sendRaw(data).
UserSendRaw(d) ==
    /\ transmit(d)
    /\ lastAct' = "sendRaw"

\* ---------------------------------------------------------------- StoreManager
\* The StoreManager after its constructor, the client not yet connected.
NewStoreManager(useRAF) ==
    [NoStoreManager EXCEPT !.constructed = TRUE, !.useRAF = useRAF]

\* this.unsubscribers.has(channel)
alreadySubscribed(st, c) == st.unsubscribers[c] # 0

\* StoreManager.subscribe(c): the closure stored for c is returned if there
\* is one; otherwise the channel is added to the store, a new callback is
\* subscribed through the client, and a new closure is stored and returned.
StoreSubscribe(c) ==
    /\ store.constructed
    /\ IF alreadySubscribed(store, c)
       THEN /\ io' = [NoIo EXCEPT !.wrapper = store.unsubscribers[c]]
            /\ sent' = NoFrames
            /\ UNCHANGED <<subVars, store>>
       ELSE LET k == Len(store.wrappers) + 1 IN
            /\ k <= MaxStoreSubs
            /\ routes' = register(routes, c, StoreCallback(k))
            /\ subscriptions' = [subscriptions EXCEPT ![c] = @ + 1]
            /\ sent' = SubscribeSends(c)
            /\ store' = [store EXCEPT
                           !.channels = @ \cup {c},
                           !.wrappers = Append(@, c),
                           !.unsubscribers[c] = k]
            /\ io' = [NoIo EXCEPT !.wrapper = k]
            /\ UNCHANGED handles
    /\ remote' = Apply(remote, sent')
    /\ delivered' = {}
    /\ lastAct' = "storeSubscribe"
    /\ UNCHANGED <<config, parsing, wsVars, hooks>>

\* The routes, reference counts, frames sent and StoreManager that calls of
\* the StoreManager's closures work on.
World(r, n, f, st) == [routes |-> r, subscriptions |-> n, sent |-> f, st |-> st]

\* A call of the k-th closure StoreManager.subscribe stored: the client's
\* unsubscribe closure (SubscriptionManager.unsubscribe for the channel and
\* the callback it captured), then unsubscribers.delete(channel),
\* removeChannel(channel) and clearChannel(channel).
release(w, k) ==
    LET c == w.st.wrappers[k]
        n == w.subscriptions[c]
    IN  World(unregister(w.routes, c, StoreCallback(k)),
              IF n = 0 THEN w.subscriptions
              ELSE IF n <= 1 THEN [w.subscriptions EXCEPT ![c] = 0]
              ELSE [w.subscriptions EXCEPT ![c] = n - 1],
              IF n # 0 /\ n <= 1 /\ isConnected
              THEN Send(w.sent, UnsubscribeFrame(c)) ELSE w.sent,
              [w.st EXCEPT !.unsubscribers[c] = 0,
                           !.channels = @ \ {c},
                           !.data[c] = "none"])

\* unsubscribeAll(): every stored closure is called, and the map cleared.
RECURSIVE releaseEach(_, _)
releaseEach(w, ks) ==
    IF ks = {} THEN w
    ELSE LET k == CHOOSE x \in ks : TRUE IN releaseEach(release(w, k), ks \ {k})
unsubscribeAll(w) ==
    LET all == releaseEach(w, {w.st.unsubscribers[c] : c \in Channels} \ {0})
    IN  [all EXCEPT !.st.unsubscribers = [c \in Channels |-> 0]]

\* The state after calls of the StoreManager's closures left the world w.
Becomes(w) ==
    /\ routes' = w.routes
    /\ subscriptions' = w.subscriptions
    /\ sent' = w.sent
    /\ store' = w.st
    /\ remote' = Apply(remote, w.sent)
    /\ delivered' = {}
    /\ UNCHANGED <<config, parsing, wsVars, handles, hooks>>

\* A call of the k-th closure StoreManager.subscribe returned.
CallStoreUnsubscribe(k) ==
    /\ k \in 1..Len(store.wrappers)
    /\ Becomes(release(World(routes, subscriptions, NoFrames, store), k))
    /\ lastAct' = "storeClosure"
    /\ io' = [NoIo EXCEPT !.wrapper = k]

\* StoreManager.unsubscribe(c): the closure stored for c, if any, is called.
StoreUnsubscribe(c) ==
    /\ store.constructed
    /\ LET k == store.unsubscribers[c]
           w == World(routes, subscriptions, NoFrames, store)
       IN  /\ Becomes(IF k # 0 THEN release(w, k) ELSE w)
           /\ io' = [NoIo EXCEPT !.wrapper = k]
    /\ lastAct' = "storeUnsubscribe"

\* StoreManager.unsubscribeAll().
StoreUnsubscribeAll ==
    /\ store.constructed
    /\ Becomes(unsubscribeAll(World(routes, subscriptions, NoFrames, store)))
    /\ lastAct' = "storeUnsubscribeAll"
    /\ io' = NoIo

\* destroy(): cancelAnimationFrame(rafId) and clearTimeout(batchTimer) when
\* set, and both set to null.
cancelFlush(st) ==
    [st EXCEPT !.frames = IF st.rafId # "null" /\ @ > 0 THEN @ - 1 ELSE @,
               !.rafId = "null",
               !.timers = IF st.batchTimer # "null" /\ @ > 0 THEN @ - 1 ELSE @,
               !.batchTimer = "null"]

\* The store's clearAll().
clearAll(st) == [st EXCEPT !.data = NoBatch, !.channels = {}]

\* StoreManager.destroy().
Destroy ==
    /\ store.constructed
    /\ LET w == unsubscribeAll(World(routes, subscriptions, NoFrames, store))
           st == clearAll([cancelFlush(w.st) EXCEPT
                              !.pendingUpdates = NoBatch,
                              !.window = [c \in Channels |-> << >>]])
       IN  Becomes([w EXCEPT !.st = st])
    /\ lastAct' = "destroy"
    /\ io' = NoIo

\* The store's batchUpdateChannels(updates): the data afterwards.
batchUpdateChannels(data, updates) ==
    [c \in Channels |-> IF updates[c] # "none" THEN updates[c] ELSE data[c]]

\* flushUpdates leaving the pending updates in the Map.
flushUpdatesKeepsPending(st) ==
    IF st.pendingUpdates = NoBatch
    THEN [st EXCEPT !.rafId = "null", !.batchTimer = "null"]
    ELSE [st EXCEPT !.data = batchUpdateChannels(@, st.pendingUpdates),
                    !.rafId = "null",
                    !.batchTimer = "null"]

\* flushUpdates(): with nothing pending the two ids are reset; otherwise
\* every pending update goes to the store in one call, the Map is cleared
\* and the ids reset.
flushUpdates(st) ==
    IF st.pendingUpdates = NoBatch
    THEN [st EXCEPT !.rafId = "null", !.batchTimer = "null"]
    ELSE [st EXCEPT !.data = batchUpdateChannels(@, st.pendingUpdates),
                    !.pendingUpdates = NoBatch,
                    !.rafId = "null",
                    !.batchTimer = "null"]

\* The browser runs a callback the StoreManager requested: an animation
\* frame ("raf") or a timeout ("timer").
Flush(kind) ==
    /\ IF kind = "raf" THEN store.frames > 0 ELSE store.timers > 0
    /\ LET st == flushUpdates(store) IN
         store' = [st EXCEPT !.frames = IF kind = "raf" THEN @ - 1 ELSE @,
                             !.timers = IF kind = "timer" THEN @ - 1 ELSE @,
                             !.window = [c \in Channels |-> << >>]]
    /\ io' = [NoIo EXCEPT !.flushed = store.pendingUpdates # NoBatch,
                          !.batch = store.pendingUpdates,
                          !.window = store.window]
    /\ sent' = NoFrames
    /\ delivered' = {}
    /\ lastAct' = "flush"
    /\ UNCHANGED <<config, parsing, wsVars, subVars, remote, hooks>>

\* The state after the constructors of WSManager, MessageRouter and
\* SubscriptionManager, for a configuration of cfgs.
InitObjects(cfgs, sm) ==
    /\ config \in cfgs
    /\ readyState = [s \in Sockets |-> "NONE"]
    /\ ws = 0
    /\ heartbeatTimer = "null"
    /\ hbLeft = 0
    /\ pongTimeoutTimer = "null"
    /\ pongLeft = 0
    /\ reconnectTimer = "null"
    /\ scheduledDelay = 0
    /\ currentReconnectDelay = InitialDelay
    /\ isIntentionallyClosed = FALSE
    /\ subscriptions = [c \in AllChannels |-> 0]
    /\ routes = [c \in AllChannels |-> NoRoute]
    /\ handles = [h \in Handles |-> 0]
    /\ sent = NoFrames
    /\ remote = {}
    /\ delivered = {}
    /\ retries = 0
    /\ awaiting = -1
    /\ lastAct = "init"
    /\ io = NoIo
    /\ hooks = IF sm.constructed
               THEN [ClientHooks EXCEPT !.listeners = @ \cup {"storeManager"},
                                        !.order = Append(@, "storeManager")]
               ELSE ClientHooks
    /\ store = sm
    /\ parsing = << >>

\* The state after the constructors when no StoreManager is made.
InitWith(cfgs) == InitObjects(cfgs, NoStoreManager)

\* The connection lifecycle: user calls, socket events, the reconnect timer.
NextConn ==
    \/ Connect
    \/ Disconnect
    \/ \E s \in Sockets : OnOpen(s)
    \/ \E s \in Sockets : OnClose(s)
    \/ ReconnectFire

\* The heartbeat, the pong timeout, time and inbound liveness replies.
NextHb ==
    \/ HeartbeatFire
    \/ PongFire
    \/ Tick
    \/ \E s \in Sockets : OnMessage(s, PongPayload, {})

\* Calls of subscribe and of the closures it returned.
NextSub ==
    \/ \E c \in Channels, cb \in Callbacks : Subscribe(c, cb)
    \/ \E h \in Handles : CallUnsubscribe(h)

InitConn == InitWith(ConnConfigs)
SpecConn == InitConn /\ [][NextConn]_vars

\* Socket events and timers are tasks of the event loop, which runs every
\* queued task: a socket that is connecting or closing gets its open or
\* close event, and a pending reconnect timer fires.
FairConn ==
    /\ \A s \in Sockets : WF_vars(OnOpen(s) \/ OnClose(s))
    /\ SF_vars(ReconnectFire)
FairSpecConn == SpecConn /\ FairConn

InitSub == InitWith(SubConfigs)
SpecSub == InitSub /\ [][NextConn \/ NextSub]_vars

\* The subscription layer when no callback is subscribed to a channel it is
\* already registered for.
NextSubDistinct ==
    \/ \E c \in Channels, cb \in Callbacks :
          cb \notin routes[c].cbs /\ Subscribe(c, cb)
    \/ \E h \in Handles : CallUnsubscribe(h)
SpecSubDistinct == InitSub /\ [][NextConn \/ NextSubDistinct]_vars

InitHb == InitWith(HbConfigs)
SpecHb == InitHb /\ [][NextConn \/ NextHb]_vars

\* The liveness protocol with the heartbeat enabled and disabled:
\* heartbeatInterval false with the default pongTimeout, and both false.
HbOptConfigs ==
    HbConfigs \cup
    { [ConstantDelayConfig EXCEPT !.heartbeatInterval = 0, !.pongTimeout = p] :
        p \in {DefaultPongTimeout, 0} }
InitHbOpt == InitWith(HbOptConfigs)
SpecHbOpt == InitHbOpt /\ [][NextConn \/ NextHb]_vars

\* Inbound messages of every kind, under strictJsonMode true and false, to
\* callbacks subscribed to an application channel and to a reserved one.
MsgConfigs ==
    { [NoHeartbeat(ConstantDelayConfig) EXCEPT !.strictJsonMode = strict] :
        strict \in BOOLEAN }
InitMsg == InitWith(MsgConfigs)
NextMsg ==
    \/ Connect
    \/ \E s \in Sockets : OnOpen(s)
    \/ \E s \in Sockets : OnClose(s)
    \/ \E cb \in Callbacks : Subscribe("a", cb)
    \/ \E c \in ReservedChannels : Subscribe(c, "cb1")
    \/ \E s \in Sockets, p \in Payloads :
          \E throwing \in SUBSET Targets(p) : OnMessage(s, p, throwing)
SpecMsg == InitMsg /\ [][NextMsg]_vars

\* The parser on a transport with the default heartbeat and pong timeout,
\* under strictJsonMode true and false.
ParseConfigs ==
    { [ConstantDelayConfig EXCEPT !.strictJsonMode = strict] : strict \in BOOLEAN }
InitParse == InitWith(ParseConfigs)
NextParse ==
    \/ HeartbeatFire
    \/ PongFire
    \/ Tick
    \/ \E s \in Sockets, p \in Payloads : OnMessage(s, p, {})
SpecParse == InitParse /\ [][NextConn \/ NextParse]_vars

\* The router on its own: calls of register, unregister and of the closures
\* register returned.
NextRouter ==
    \/ \E c \in AllChannels, cb \in Callbacks : Register(c, cb)
    \/ \E c \in AllChannels, cb \in Callbacks : Unregister(c, cb)
    \/ \E h \in Handles : CallDeregister(h)
SpecRouter == InitSub /\ [][NextRouter]_vars

\* Calls of send and sendRaw on a transport with a heartbeat.
SendData == {StringData, BufferData, ObjectData(SubscribeFrame("a"))}
NextSend ==
    \/ \E c \in Channels : UserSend(UnsubscribeFrame(c))
    \/ \E d \in SendData : UserSendRaw(d)
SpecSend == InitHb /\ [][NextConn \/ NextHb \/ NextSend]_vars

\* The subscription layer over a connection with a heartbeat (interval of one
\* tick, no pong timeout).
HbSubConfigs ==
    {[ConstantDelayConfig EXCEPT !.heartbeatInterval = TickMs, !.pongTimeout = 0]}
InitHbSub == InitWith(HbSubConfigs)
NextHbSub ==
    \/ NextConn
    \/ HeartbeatFire
    \/ Tick
    \/ \E c \in Channels : Subscribe(c, "cb1")
    \/ \E h \in Handles : h.callback = "cb1" /\ CallUnsubscribe(h)
SpecHbSub == InitHbSub /\ [][NextHbSub]_vars

\* Envelopes for two application channels, with two values of data for one.
StoreTexts ==
    {"{\"channel\":\"a\",\"data\":1}",
     "{\"channel\":\"a\",\"data\":2}",
     "{\"channel\":\"b\",\"data\":1}"}
StorePayloads == {TextPayload(t) : t \in StoreTexts}

\* Envelopes arriving while callbacks subscribe and unsubscribe.
NextDeliver ==
    \/ Connect
    \/ \E s \in Sockets : OnOpen(s)
    \/ \E s \in Sockets : OnClose(s)
    \/ NextSub
    \/ \E s \in Sockets, p \in StorePayloads : OnMessage(s, p, {})
SpecDeliver == InitSub /\ [][NextDeliver]_vars

\* The connection lifecycle while the application adds and removes
\* connection-state listeners.
NextListen ==
    \/ \E l \in UserListeners : OnConnectionStateChange(l)
    \/ \E l \in UserListeners : CallRemoveListener(l)
SpecListen == InitSub /\ [][NextConn \/ NextListen]_vars
FairSpecListen == SpecListen /\ FairConn

\* Envelopes arriving while the application installs message handlers, one
\* callback being subscribed through the SubscriptionManager.
NextHandler ==
    \/ Connect
    \/ \E s \in Sockets : OnOpen(s)
    \/ \E s \in Sockets : OnClose(s)
    \/ Subscribe("a", "cb1")
    \/ \E h \in UserHandlers : OnMessageHandler(h)
    \/ \E s \in Sockets, p \in StorePayloads : OnMessage(s, p, {})
SpecHandler == InitMsg /\ [][NextHandler]_vars

\* The lifecycle and the heartbeat with error events.
SpecErr == InitHb /\ [][NextConn \/ NextHb \/ \E s \in Sockets : OnError(s)]_vars

\* A StoreManager over a client: calls of its methods and closures, the
\* connection, envelopes for its channels and the browser's callbacks.
InitStore ==
    \E useRAF \in BOOLEAN : InitObjects(SubConfigs, NewStoreManager(useRAF))
NextStore ==
    \/ (ws = 0 /\ Connect)
    \/ \E s \in Sockets : OnOpen(s)
    \/ \E c \in Channels : StoreSubscribe(c)
    \/ \E k \in 1..MaxStoreSubs : CallStoreUnsubscribe(k)
    \/ \E c \in Channels : StoreUnsubscribe(c)
    \/ StoreUnsubscribeAll
    \/ Destroy
    \/ \E kind \in {"raf", "timer"} : Flush(kind)
    \/ \E s \in Sockets, p \in StorePayloads : OnMessage(s, p, {})
SpecStore == InitStore /\ [][NextStore]_vars

\* The batcher: updates ingested and flushed while channels are subscribed,
\* the one with two values unsubscribed by name, and the manager destroyed.
NextBatch ==
    \/ (ws = 0 /\ Connect)
    \/ \E s \in Sockets : OnOpen(s)
    \/ \E c \in Channels : StoreSubscribe(c)
    \/ StoreUnsubscribe("a")
    \/ Destroy
    \/ \E kind \in {"raf", "timer"} : Flush(kind)
    \/ \E s \in Sockets, p \in StorePayloads : OnMessage(s, p, {})
SpecBatch == InitStore /\ [][NextBatch]_vars

\* The event loop runs every callback the browser holds.
FairStore == \A kind \in {"raf", "timer"} : WF_vars(Flush(kind))
FairSpecBatch == SpecBatch /\ FairStore

\* A transport whose messageParser is asynchronous, with one callback
\* subscribed: messages arrive, and their parses resolve in any order.
NextAsync ==
    \/ Connect
    \/ Disconnect
    \/ \E s \in Sockets : OnOpen(s)
    \/ \E s \in Sockets : OnClose(s)
    \/ Subscribe("a", "cb1")
    \/ \E s \in Sockets, p \in StorePayloads : OnMessageAsync(s, p)
    \/ \E i \in 1..MaxInFlight : ParserResolves(i)
SpecAsync == InitSub /\ [][NextAsync]_vars

\* The lifecycle with listeners of the application that may throw when told
\* of a close.
NextListenThrow ==
    \/ Connect
    \/ Disconnect
    \/ \E s \in Sockets : OnOpen(s)
    \/ \E s \in Sockets :
          \E throwing \in SUBSET (hooks.listeners \cap UserListeners) :
             OnCloseWith(s, throwing)
    \/ ReconnectFire
    \/ NextListen
SpecListenThrow == InitSub /\ [][NextListenThrow]_vars

\* ------------------------------------------------------------------ claims
\* A step created a new socket object and made it this.ws.
NewSocket ==
    /\ ws' # 0
    /\ readyState'[ws'] = "CONNECTING"
    /\ (ws' # ws \/ readyState[ws] # "CONNECTING")

\* The step was a call of subscribe or of a closure it returned.
SubscriptionCall == lastAct' \in {"subscribe", "unsubscribe", "unsubscribeAgain"}

\* C1: while the connection is open, a call of subscribe or of a returned
\* closure sends a subscribe frame for a channel exactly when the channel's
\* reference count goes from 0 to 1, an unsubscribe frame exactly when it
\* goes from a positive count to 0, and nothing else; a call changes a count
\* by one at most.
C1_FramesFollowRefCount ==
    [][(isConnected /\ SubscriptionCall) =>
         /\ \A c \in Channels :
              /\ sent'[SubscribeFrame(c)] =
                     IF subscriptions[c] = 0 /\ subscriptions'[c] = 1 THEN 1 ELSE 0
              /\ sent'[UnsubscribeFrame(c)] =
                     IF subscriptions[c] > 0 /\ subscriptions'[c] = 0 THEN 1 ELSE 0
         /\ \A f \in Frames : f.channel \notin Channels => sent'[f] = 0
         /\ \A c \in Channels :
              subscriptions'[c] - subscriptions[c] \in
                  (IF lastAct' = "subscribe" THEN {0, 1} ELSE {0, -1})]_vars

\* Two subscribers of "a" have both unsubscribed on an open connection, and
\* the second unsubscribe sent the one unsubscribe frame.
C1_Witness ==
    /\ isConnected
    /\ lastAct = "unsubscribe"
    /\ handles[Handle("a", "cb1", TRUE)] = 1
    /\ handles[Handle("a", "cb2", TRUE)] = 1
    /\ subscriptions["a"] = 0
    /\ sent[UnsubscribeFrame("a")] = 1

\* C2: a second or later call of a closure returned by subscribe changes
\* neither the reference counts nor the router's registrations and sends no
\* frame.
C2_SecondCallHasNoEffect ==
    [][lastAct' = "unsubscribeAgain" =>
         /\ UNCHANGED <<subscriptions, routes>>
         /\ sent' = NoFrames]_vars

\* C3: in the step that takes the transport to Open, exactly one subscribe
\* frame is sent for every channel with a positive reference count, and no
\* other frame.
C3_ResubscribeOnOpen ==
    [][(~isConnected /\ isConnected') =>
         \A f \in Frames :
             sent'[f] = IF /\ f.action = "subscribe"
                           /\ f.channel \in Channels
                           /\ subscriptions[f.channel] > 0
                        THEN 1 ELSE 0]_vars

\* The connection opened after a reconnect timer had fired; "a" has a
\* subscriber and was resubscribed, "b" was subscribed and unsubscribed and
\* was not.
C3_Witness ==
    /\ lastAct = "open"
    /\ isConnected
    /\ reconnectTimer = "fired"
    /\ subscriptions["a"] > 0
    /\ sent[SubscribeFrame("a")] = 1
    /\ subscriptions["b"] = 0
    /\ \E cb \in Callbacks : handles[Handle("b", cb, TRUE)] > 0
    /\ sent[SubscribeFrame("b")] = 0

\* C4: for every channel the reference count equals the number of callbacks
\* registered for it in the router.
C4_RefCountEqualsCallbacks ==
    \A c \in Channels : subscriptions[c] = Cardinality(routes[c].cbs)

\* C5: while the connection is open, a channel is subscribed at the peer if
\* and only if its local reference count is positive.
C5_RemoteMatchesLocal ==
    isConnected =>
        \A c \in FrameChannels :
            c \in remote <=> (c \in Channels /\ subscriptions[c] > 0)

\* C5 as amended: the same for every channel but the heartbeat frame's.
C5_RemoteMatchesLocalButHeartbeat ==
    isConnected =>
        \A c \in FrameChannels \ {HeartbeatMessage.channel} :
            c \in remote <=> (c \in Channels /\ subscriptions[c] > 0)

\* After a reconnect the peer holds "a", which has a subscriber, not "b",
\* which was subscribed and unsubscribed, and "ping", from a heartbeat.
C5_Witness ==
    /\ isConnected
    /\ reconnectTimer = "fired"
    /\ subscriptions["a"] > 0
    /\ subscriptions["b"] = 0
    /\ handles[Handle("b", "cb1", TRUE)] > 0
    /\ remote = {"a", "ping"}

C7_NoReconnectAfterDisconnect ==
    /\ [](isIntentionallyClosed => reconnectTimer # "pending")
    /\ [][(isIntentionallyClosed /\ NewSocket) => lastAct' = "connect"]_vars
    /\ [][(reconnectTimer' = "pending" /\ reconnectTimer # "pending")
            => (lastAct' = "close" /\ ~isIntentionallyClosed)]_vars

\* The close event of a disconnected socket has been handled and set no timer.
C7_Witness ==
    /\ isIntentionallyClosed
    /\ lastAct = "close"
    /\ reconnectTimer # "pending"

RECURSIVE Pow(_, _)
Pow(b, k) == IF k = 0 THEN 1 ELSE b * Pow(b, k - 1)

\* min(reconnectDelay * factor^k, maxReconnectDelay)
Backoff(k) ==
    Min((InitialDelay * Pow(config.factorNum, k)) \div Pow(config.factorDen, k),
        MaxDelay)

C9_LostOpenRetriesAtInitialDelay ==
    [][(isConnected /\ ~isConnected' /\ lastAct' = "close"
            /\ reconnectTimer' = "pending")
         => scheduledDelay' = InitialDelay]_vars

\* C10: on an open connection with the pong timeout enabled no heartbeat
\* stays unanswered for longer than pongTimeout.
C10_UnansweredHeartbeatCloses ==
    (isConnected /\ config.pongTimeout > 0 /\ awaiting >= 0)
        => awaiting <= config.pongTimeout

\* C11: a heartbeat tick on an open connection sends exactly the heartbeat
\* frame and, with the pong timeout enabled, arms the pong timeout for a full
\* period; a liveness reply cancels the timeout and leaves every socket as it
\* is; and the timeout is pending, and fires, only while a heartbeat is
\* unanswered.
C11_HeartbeatAndPong ==
    /\ [][(lastAct' = "heartbeatFire" /\ isConnected) =>
            /\ sent' = Send(NoFrames, HeartbeatMessage)
            /\ config.pongTimeout > 0 =>
                  (pongTimeoutTimer' = "pending" /\ pongLeft' = config.pongTimeout)
            /\ config.pongTimeout = 0 => UNCHANGED pongTimeoutTimer]_vars
    /\ [][(lastAct' = "message" /\ io'.payload = PongPayload) =>
            /\ pongTimeoutTimer' = "null"
            /\ UNCHANGED <<readyState, ws>>]_vars
    /\ [](pongTimeoutTimer = "pending" => awaiting >= 0)
    /\ [][lastAct' = "pongFire" => (pongTimeoutTimer = "pending" /\ awaiting >= 0)]_vars

\* A heartbeat was sent on the open connection and answered: the timeout is
\* cancelled and the connection is still open.
C11_Witness ==
    /\ lastAct = "message"
    /\ io.payload = PongPayload
    /\ config.pongTimeout > 0
    /\ isConnected
    /\ "ping" \in remote
    /\ awaiting = -1
    /\ pongTimeoutTimer = "null"
    /\ heartbeatTimer = "active"

\* C12: with heartbeatInterval 0 there is never a heartbeat timer, a pong
\* timeout or a heartbeat frame; with pongTimeout 0 a heartbeat tick on an
\* open connection still sends the heartbeat frame, and the pong timeout is
\* never armed and never closes the connection.
C12_DisabledHeartbeat ==
    /\ [](config.heartbeatInterval = 0 =>
            /\ heartbeatTimer = "null"
            /\ pongTimeoutTimer = "null"
            /\ sent[HeartbeatMessage] = 0
            /\ lastAct \notin {"heartbeatFire", "pongFire"})
    /\ [](config.pongTimeout = 0 =>
            (pongTimeoutTimer = "null" /\ lastAct # "pongFire"))
    /\ [][(lastAct' = "heartbeatFire" /\ isConnected /\ config.pongTimeout = 0) =>
            sent' = Send(NoFrames, HeartbeatMessage)]_vars

\* With the pong timeout disabled a heartbeat frame went out on the open
\* connection and no timeout was armed.
C12_Witness ==
    /\ config.heartbeatInterval > 0
    /\ config.pongTimeout = 0
    /\ lastAct = "heartbeatFire"
    /\ isConnected
    /\ "ping" \in remote
    /\ sent[HeartbeatMessage] = 1
    /\ pongTimeoutTimer = "null"

\* C13: after disconnect() and until the next connect() no timer is
\* outstanding.
C13_NoTimersAfterDisconnect ==
    isIntentionallyClosed =>
        /\ heartbeatTimer = "null"
        /\ pongTimeoutTimer # "pending"
        /\ reconnectTimer # "pending"

\* C14: a call of connect() on an open connection changes nothing and sends
\* nothing.
C14_ConnectWhenOpen ==
    [][(lastAct' = "connect" /\ isConnected) =>
         /\ UNCHANGED <<config, wsVars, subVars, remote>>
         /\ sent' = NoFrames]_vars

\* connect() was called on an open connection whose heartbeat is awaiting
\* its reply.
C14_Witness ==
    /\ lastAct = "connect"
    /\ isConnected
    /\ heartbeatTimer = "active"
    /\ pongTimeoutTimer = "pending"
    /\ awaiting >= 0

\* C15: a call of send or sendRaw on an open connection transmits its
\* argument; on any other it transmits nothing, throws nothing and changes
\* nothing; and a step that is not such a call or a heartbeat transmits
\* nothing, whatever was passed to send before.
C15_SendOnlyWhenOpen ==
    /\ [][(lastAct' \in {"send", "sendRaw"} /\ isConnected) =>
            /\ sent' = (IF io'.call.type = "object"
                        THEN Send(NoFrames, io'.call.frame) ELSE NoFrames)
            /\ io'.raw = (IF io'.call.type = "string" THEN TextPayload(io'.call.text)
                          ELSE IF io'.call.type = "buffer" THEN BinaryPayload
                          ELSE NoPayload)
            /\ ~io'.thrown]_vars
    /\ [][(lastAct' \in {"send", "sendRaw"} /\ ~isConnected) =>
            /\ sent' = NoFrames
            /\ io'.raw = NoPayload
            /\ ~io'.thrown
            /\ UNCHANGED <<config, wsVars, subVars, remote>>]_vars
    /\ [][lastAct' \notin {"send", "sendRaw", "heartbeatFire"} =>
            (sent' = NoFrames /\ io'.raw = NoPayload)]_vars

\* sendRaw was called with a string while the socket was still connecting:
\* nothing was transmitted.
C15_Witness ==
    /\ lastAct = "sendRaw"
    /\ io.call = StringData
    /\ ws # 0
    /\ readyState[ws] = "CONNECTING"
    /\ io.raw = NoPayload
    /\ ~io.thrown

\* C16: a message whose channel starts with "__" is not passed to the
\* message handler and reaches no callback, subscribed to that channel or
\* not; a message whose channel is any other string is passed to the handler
\* and reaches every callback registered for its channel.
C16_ReservedNeverDelivered ==
    (lastAct = "message" /\ ~io.parsed.threw /\ io.parsed.message.stringChannel) =>
        LET m == io.parsed.message IN
        IF startsWith(m.channel, "__")
        THEN io.forwarded = NoMessage /\ delivered = {}
        ELSE /\ io.forwarded = m
             /\ delivered = (IF m.channel \in AllChannels /\ routes[m.channel].has
                             THEN routes[m.channel].cbs ELSE {})

\* An envelope for the reserved channel arrived while a callback was
\* subscribed to that channel, and no callback was called.
C16_Witness ==
    /\ lastAct = "message"
    /\ io.payload = TextPayload("{\"channel\":\"__c\",\"data\":1}")
    /\ io.parsed.message.channel = "__c"
    /\ subscriptions["__c"] > 0
    /\ "cb1" \in routes["__c"].cbs
    /\ io.forwarded = NoMessage
    /\ delivered = {}

\* C17: a string that is not JSON is, under strictJsonMode, dropped: the
\* handler is not called, no callback runs and an error is logged; without
\* strictJsonMode it is passed to the handler as {channel: "message", data:
\* the string} and nothing is logged. Either way the sockets, the timers and
\* the subscriptions stay as they are.
C17_NonJsonString ==
    /\ []((lastAct = "message" /\ io.payload.kind = "text"
              /\ ~JSONparse(io.payload.text).ok) =>
            IF config.strictJsonMode
            THEN io.forwarded = NoMessage /\ delivered = {} /\ io.logged
            ELSE /\ io.forwarded = Message("message", TRUE, "raw", io.payload)
                 /\ ~io.logged
                 /\ ~io.thrown)
    /\ [][(lastAct' = "message" /\ io'.payload.kind = "text"
              /\ ~JSONparse(io'.payload.text).ok) =>
            UNCHANGED <<config, wsVars, subVars, remote>>]_vars

\* Under strictJsonMode a string that is not JSON arrived on the open
\* connection while a heartbeat awaited its reply; it was dropped and logged,
\* and the connection is open with its timers running.
C17_Witness ==
    /\ config.strictJsonMode
    /\ lastAct = "message"
    /\ io.payload = TextPayload("hello")
    /\ io.logged
    /\ io.forwarded = NoMessage
    /\ isConnected
    /\ heartbeatTimer = "active"
    /\ pongTimeoutTimer = "pending"

\* C18: the default parser gives, for binary data, {channel: "binary", data:
\* the data}; for JSON text of an object with a channel property, that
\* object; for any other JSON text, {channel: "message", data: the decoded
\* value}.
C18_ParserClassifies ==
    lastAct = "message" =>
        LET p == io.payload
            v == JSONparse(p.text)
            envelope == v.type = "object" /\ v.key # "absent"
        IN  /\ p.kind = "binary" =>
                  io.parsed = Returned(Message("binary", TRUE, "raw", p))
            /\ (p.kind = "text" /\ v.ok /\ envelope) =>
                  io.parsed = Returned(Message(v.channel, v.key = "string", "self", p))
            /\ (p.kind = "text" /\ v.ok /\ ~envelope) =>
                  io.parsed = Returned(Message("message", TRUE, "decoded", p))

\* The text "null" was received and wrapped as {channel: "message", data: null}.
C18_Witness ==
    /\ lastAct = "message"
    /\ io.payload = TextPayload("null")
    /\ io.parsed = Returned(Message("message", TRUE, "decoded", TextPayload("null")))
    /\ io.forwarded = io.parsed.message

\* C19: emit calls every callback registered for the channel, whichever of
\* them throw; every exception is logged and none leaves emit; and the
\* registrations are unchanged.
C19_ThrowingCallbackIsolated ==
    /\ []((lastAct = "message" /\ io.forwarded # NoMessage
              /\ io.forwarded.channel \in AllChannels) =>
            /\ delivered = routes[io.forwarded.channel].cbs
            /\ io.callbackErrors = Cardinality(io.throwing)
            /\ ~io.thrown
            /\ ~io.logged)
    /\ [][lastAct' = "message" => UNCHANGED routes]_vars

\* Two callbacks are registered for "a"; one threw, and both were called.
C19_Witness ==
    /\ lastAct = "message"
    /\ io.forwarded.channel = "a"
    /\ routes["a"].cbs = {"cb1", "cb2"}
    /\ io.throwing = {"cb1"}
    /\ io.callbackErrors = 1
    /\ delivered = {"cb1", "cb2"}

\* The callbacks registered for channel c in the routes map r.
Registered(r, c) == IF r[c].has THEN r[c].cbs ELSE {}

\* C20: the routes map has no entry with an empty callback set: a channel
\* is listed by getChannels() exactly when hasChannel says so, exactly when
\* a callback is registered for it; and a call of a closure returned by
\* register removes that closure's callback from its channel and nothing
\* else.
C20_NoEmptyRoutes ==
    /\ [](\A c \in AllChannels :
            /\ c \in getChannels <=> hasChannel(c)
            /\ hasChannel(c) <=> Registered(routes, c) # {})
    /\ [][lastAct' = "deregister" =>
            \A c \in AllChannels :
                Registered(routes', c) =
                    Registered(routes, c) \
                        (IF c = io'.closure.channel THEN {io'.closure.callback}
                         ELSE {})]_vars

\* The closure of the only callback of "a" was called: "a" is no longer
\* listed, "b", which has a callback, is.
C20_Witness ==
    /\ lastAct = "deregister"
    /\ io.closure = Handle("a", "cb1", FALSE)
    /\ "a" \notin getChannels
    /\ ~hasChannel("a")
    /\ getChannels = {"b"}
    /\ hasChannel("b")

\* C21: an envelope for channel C is delivered to exactly the callbacks that
\* hold a subscription to C whose unsubscribe function has not been called,
\* and to no other callback.
C21_DeliveredToSubscribers ==
    (lastAct = "message" /\ io.forwarded # NoMessage
                        /\ io.forwarded.channel \in Channels) =>
        delivered = {cb \in Callbacks :
                        handles[Handle(io.forwarded.channel, cb, FALSE)] > 0}

C24_SingleHandler ==
    /\ [][lastAct' = "onMessage" => hooks'.handler = io'.handler]_vars
    /\ [](lastAct = "message" /\ io.forwarded # NoMessage =>
            /\ io.handler = hooks.handler
            /\ io.handler \notin hooks.replaced
            /\ (io.handler # "router" => delivered = {}))

\* After onMessage(h1) and then onMessage(h2), an envelope for a channel
\* with a subscribed callback went to h2.
C24_Witness ==
    /\ lastAct = "message"
    /\ io.handler = "h2"
    /\ "h1" \in hooks.replaced
    /\ io.forwarded.channel = "a"
    /\ routes["a"].cbs = {"cb1"}
    /\ delivered = {}

\* C30: an error event logs and changes nothing: no socket state, timer,
\* reconnect schedule, subscription or listener, and nobody is notified.
C30_ErrorChangesNothing ==
    [][lastAct' = "error" =>
         /\ UNCHANGED <<config, wsVars, subVars, remote, hooks, store>>
         /\ sent' = NoFrames
         /\ io'.notified = NoNotice]_vars

\* An error event of the open socket while its heartbeat awaits a reply.
C30_Witness ==
    /\ lastAct = "error"
    /\ io.socket = ws
    /\ isConnected
    /\ heartbeatTimer = "active"
    /\ pongTimeoutTimer = "pending"
    /\ reconnectTimer = "null"

\* The flushUpdates callbacks the browser holds for the StoreManager.
Scheduled == store.frames + store.timers

\* The last element of a non-empty sequence.
Last(w) == w[Len(w)]

\* C25: when one or more updates of a channel were ingested since the last
\* flush, exactly one flush is scheduled, and that flush gives the store the
\* last of them for the channel and leaves no flush scheduled.
C25_LastUpdateWins ==
    /\ []((\E c \in Channels : store.window[c] # << >>) => Scheduled = 1)
    /\ [][lastAct' = "flush" =>
            /\ \A c \in Channels :
                  store.window[c] # << >> =>
                      /\ io'.batch[c] = Last(store.window[c])
                      /\ store'.data[c] = Last(store.window[c])
            /\ store'.frames + store'.timers = 0]_vars

\* A flush after the updates 1 and then 2 of channel "a": the store has 2.
C25_Witness ==
    /\ lastAct = "flush"
    /\ io.window["a"] = <<"1", "2">>
    /\ io.batch["a"] = "2"
    /\ store.data["a"] = "2"

\* C26: at most one flush is scheduled, an animation frame or a timer
\* according to useRAF, and the id kept tells whether one is; while updates
\* are pending one is scheduled; and pending updates are eventually flushed
\* unless destroy() drops them.
C26_OneFlushScheduled ==
    /\ [](/\ Scheduled <= 1
          /\ (store.useRAF => store.timers = 0)
          /\ (~store.useRAF => store.frames = 0)
          /\ (store.rafId # "null" <=> store.frames = 1)
          /\ (store.batchTimer # "null" <=> store.timers = 1)
          /\ (store.pendingUpdates # NoBatch => Scheduled = 1))
    /\ (store.pendingUpdates # NoBatch)
          ~> ((lastAct = "flush" /\ io.flushed) \/ lastAct = "destroy")

\* Updates of both channels are pending, two of them for "a", with a timer
\* as the one scheduled flush.
C26_Witness ==
    /\ ~store.useRAF
    /\ store.pendingUpdates = [c \in Channels |-> "1"]
    /\ Len(store.window["a"]) = 2
    /\ store.timers = 1
    /\ store.frames = 0
    /\ store.batchTimer # "null"

\* C27: a flush gives the store, in one batch, exactly the latest update of
\* every channel ingested since the previous flush (none of an earlier
\* batch), leaves the other channels' data as it was, and leaves nothing
\* pending and no id set; with nothing pending it gives the store nothing.
C27_FlushDeliversBatchOnce ==
    [][lastAct' = "flush" =>
         /\ io'.batch = [c \in Channels |->
                            IF store.window[c] = << >> THEN "none"
                            ELSE Last(store.window[c])]
         /\ io'.flushed = (io'.batch # NoBatch)
         /\ store'.data = [c \in Channels |->
                              IF io'.batch[c] # "none" THEN io'.batch[c]
                              ELSE store.data[c]]
         /\ store'.pendingUpdates = NoBatch
         /\ store'.rafId = "null"
         /\ store'.batchTimer = "null"]_vars

\* A flush gave the store one update of each channel in one batch; nothing
\* is pending or scheduled afterwards.
C27_Witness ==
    /\ lastAct = "flush"
    /\ io.flushed
    /\ io.batch = [c \in Channels |-> "1"]
    /\ Len(io.window["a"]) = 1
    /\ store.data = [c \in Channels |-> "1"]
    /\ store.pendingUpdates = NoBatch
    /\ Scheduled = 0

\* The callbacks of the StoreManager registered for channel c in the router.
StoreSubscriptions(c) ==
    {k \in 1..Len(store.wrappers) : StoreCallback(k) \in routes[c].cbs}

\* C28: when destroy() returns no flush is scheduled, nothing is pending,
\* no callback of the manager is registered for any channel, and the store
\* has no channel and no data.
C28_DestroyReleasesEverything ==
    lastAct = "destroy" =>
        /\ Scheduled = 0
        /\ store.rafId = "null"
        /\ store.batchTimer = "null"
        /\ store.pendingUpdates = NoBatch
        /\ store.channels = {}
        /\ store.data = NoBatch
        /\ \A c \in Channels : StoreSubscriptions(c) = {}

\* C29: the manager holds at most one client subscription per channel.
C29_OneSubscriptionPerChannel ==
    \A c \in Channels : Cardinality(StoreSubscriptions(c)) <= 1

\* The sockets whose handlers can still run as connecting or open ones.
Live == {s \in Sockets : readyState[s] \in {"CONNECTING", "OPEN"}}

\* C31: at most one socket with the manager's handlers installed is
\* connecting or open.
C31_OneLiveSocket == Cardinality(Live) <= 1

\* C32: the message whose handling continues is the oldest one received and
\* not yet handled, so messages reach the handler in arrival order.
C32_HandledInArrivalOrder ==
    [][lastAct' = "parsed" => parsing' = Tail(parsing)]_vars

\* C33: the close event of a socket that disconnect() closed, arriving after
\* connect() made another socket the current one, leaves the heartbeat, the
\* pong timeout, the reconnect timer and the reconnect delay as they were.
C33_LateCloseIsHarmless ==
    [][(/\ lastAct' = "close"
        /\ ws # 0
        /\ io'.socket # ws
        /\ readyState[io'.socket] = "CLOSING") =>
         UNCHANGED <<heartbeatTimer, pongTimeoutTimer, reconnectTimer,
                     currentReconnectDelay>>]_vars

\* C34: when the listeners are called with true isConnected() is true, and
\* when they are called with false it is false.
C34_NotificationsAgree ==
    /\ (io.notified.value = "true" => isConnected)
    /\ (io.notified.value = "false" => ~isConnected)

\* C35: a close that disconnect() did not ask for leaves the reconnect timer
\* pending and has called every registered listener, whether or not one of
\* them threw.
C35_ReconnectDespiteThrow ==
    (lastAct = "close" /\ ~isIntentionallyClosed) =>
        /\ reconnectTimer = "pending"
        /\ io.notified = Notice("false", hooks.listeners)

\* C36: the heartbeat interval and the pong timeout are active only while
\* the current socket is open.
C36_TimersOnlyWhileOpen ==
    (heartbeatTimer = "active" \/ pongTimeoutTimer = "pending") => isConnected

\* C37: between disconnect() and the next connect() no message is passed to
\* the message handler.
C37_NothingAfterDisconnect ==
    (lastAct \in {"message", "parsed"} /\ isIntentionallyClosed) =>
        (io.forwarded = NoMessage /\ delivered = {})

\* C38: the store holds data only for channels the StoreManager is
\* subscribed to: none is left, and none is written, once a channel's
\* unsubscribe has run.
C38_NoDataAfterUnsubscribe ==
    \A c \in Channels : store.unsubscribers[c] = 0 => store.data[c] = "none"

\* C39: a call of subscribe or of a returned closure while the connection
\* is not open sends nothing and leaves the transport and the peer's
\* subscriptions as they were; the step that opens the connection sends a
\* subscribe frame for exactly the channels whose reference count is
\* positive, which are then the ones subscribed at the peer; and an
\* unsubscribe frame is only sent, on an open connection, for a channel
\* that is subscribed at the peer.
C39_OfflineChangesAreLocal ==
    /\ [][(SubscriptionCall /\ ~isConnected) =>
            /\ sent' = NoFrames
            /\ UNCHANGED <<wsVars, remote>>]_vars
    /\ [][(~isConnected /\ isConnected') =>
            /\ \A c \in Channels :
                  sent'[SubscribeFrame(c)] = 1 <=> subscriptions[c] > 0
            /\ remote' = {c \in Channels : subscriptions[c] > 0}]_vars
    /\ [][\A c \in Channels :
            sent'[UnsubscribeFrame(c)] > 0 => (isConnected /\ c \in remote)]_vars

\* While the socket was connecting, "b" was subscribed and the one
\* subscriber of "a" unsubscribed: nothing was sent.
C39_Witness ==
    /\ lastAct = "unsubscribe"
    /\ ws # 0
    /\ readyState[ws] = "CONNECTING"
    /\ subscriptions["a"] = 0
    /\ handles[Handle("a", "cb1", TRUE)] = 1
    /\ subscriptions["b"] = 1
    /\ sent = NoFrames
    /\ remote = {}

====
